---- MODULE Spec2Model ----
(***************************************************************************)
(* Model of the HS260 vision navigation core.                              *)
(*                                                                         *)
(*   - AutopilotController (python-vision/autopilot.py): state machine,    *)
(*     command synthesis, smoothing, rate limiting, egress translation.    *)
(*   - VisionProcessor._parse_nal_units (python-vision/vision_server.py):  *)
(*     the length-prefixed stream demuxer.                                 *)
(*                                                                         *)
(* Units.  Velocities, balances and flow magnitudes are fixed-point        *)
(* integers in thousandths (0.3 m/s = 300, deadband 0.05 = 50).  Yaw is in *)
(* thousandths of deg/s.  Time is in tenths of a second (0.2 s = 2).       *)
(* A mean of a history is kept exact as a fraction [n |-> sum, d |-> len]. *)
(***************************************************************************)
EXTENDS Integers, Sequences, FiniteSets, TLC

(***************************************************************************)
(* Bounds of the model (not program constants).                            *)
(***************************************************************************)
StartTime == 2      \* time.time() at construction, >= the rate limit away from 0
MaxTime   == 4      \* the clock stops advancing here
MaxDelay  == 1      \* longest wait at the confirmation prompt
MaxStops  == 4      \* cap on consecutive_stops
MaxApply  == 6      \* most applications of the smoother to one command
MaxSegments == 2    \* most segments of a message

(***************************************************************************)
(* Program constants: AutopilotController.__init__                         *)
(***************************************************************************)
command_history_size == 5
max_vx == 500
max_vy == 300
max_vz == 200
max_yaw == 15000
min_vx == -200
deadband == 50
target_flow == 3000
command_rate_limit == 2
yaw_threshold == 5000
\* the emergency threshold one too low
stop_limit_one_less == 3 - 1

stop_limit == 3

None == "None"

\* a command variable that holds no dict yet (last_command = None)
NoneCmd == [none |-> TRUE]

\* last_send_at before any successful send
Never == -1

\* no direct call / a call that has not returned
NoCall == [fn |-> "none"]

NoRet == [none |-> TRUE]

\* the message variable while no message is being handled (an empty byte string)
NoMessage == <<>>

VARIABLES
    enabled, emergency_stop, confirmation_mode,
    vx_history, vy_history, vz_history, yaw_history,
    last_command_time, last_command, consecutive_stops,
    now,            \* time.time()
    control_cmd,    \* the dict most recently returned by compute_control
    op,             \* the operation that ran last
    result,         \* what execute_control returned when it ran last: "True",
                    \* "False" or "KeyError" (raised); "None" after any other step
    requests,       \* the HTTP requests the last operation issued, in order
    last_send_at,   \* when execute_control last issued a request answered 200
    call,           \* a direct call of one method: its arguments and what it returned
    message,        \* the WebSocket message handed to _parse_nal_units
    nal_units,      \* the units _parse_nal_units returned for it
    codec,          \* VisionProcessor.codec: "None" or "h264"
    message_count, nal_count, total_frames,
    codec_frames,   \* every frame codec.decode has returned, in order
    processed_frames, \* every frame handed to _process_frame, in order
    prev_frame,     \* VisualOdometry.prev_frame: "None" or the gray image stored
    prev_kp,        \* VisualOdometry.prev_kp: the keypoints stored
    prev_desc,      \* VisualOdometry.prev_desc: the descriptors stored, or None
    trajectory, current_pos, current_rot, good_frames,
    vo_result,      \* what process_frame returned when it ran last
    region_history, \* TauTTCEstimator.region_history
    tau_result,     \* the last compute_tau call: its arguments and what it returned
    tau_calls,      \* how many compute_tau calls were made
    grid_size,      \* ObstacleDetector.grid_size, the same for both analyzers
    frame_size,     \* the width and height of the frame analyzed
    status,         \* zone <<row, col>> -> its status in the frame analyzed
    sparse_zones,   \* what _analyze_zones_sparse returned
    dense_zones,    \* what _analyze_zones returned
    sparse_result,  \* result after the sparse _update_safe_directions
    dense_safe,     \* what the dense _update_safe_directions returned
    prev_gray,      \* ObstacleDetectorFast.prev_gray: "None" or "gray"
    frame_result,   \* what ObstacleDetectorFast.analyze_frame returned last
    processed_frame, \* VisionProcessor.processed_frame, the slot the MJPEG thread reads
    frame_queue,    \* VisionProcessor.frame_queue
    receiver_pc,    \* the receiver thread: "idle" or "processing" (in _process_frame)
    consumer_pc,    \* the thread in send_mjpeg_stream: "read", "encode" or "sleep"
    latest          \* its local variable frame, what get_latest_frame returned last

apVars == <<enabled, emergency_stop, confirmation_mode,
            vx_history, vy_history, vz_history, yaw_history,
            last_command_time, last_command, consecutive_stops,
            now, control_cmd, op, result, requests, last_send_at>>

decVars == <<codec, message_count, nal_count, total_frames, codec_frames, processed_frames>>

voVars == <<prev_frame, prev_kp, prev_desc, trajectory, current_pos, current_rot, good_frames, vo_result>>

tauVars == <<region_history, tau_result, tau_calls>>

gridVars == <<grid_size, frame_size, status, sparse_zones, dense_zones,
              sparse_result, dense_safe, prev_gray, frame_result>>

mbVars == <<processed_frame, frame_queue, receiver_pc, consumer_pc, latest>>

visionVars == <<decVars, mbVars, voVars, tauVars, gridVars>>

otherVars == <<call, message, nal_units, visionVars>>

vars == <<apVars, otherVars>>

(***************************************************************************)
(* Arithmetic helpers                                                      *)
(***************************************************************************)
Abs(x) == IF x < 0 THEN -x ELSE x

Max(a, b) == IF a > b THEN a ELSE b

\* np.clip
Clip(x, lo, hi) == IF x < lo THEN lo ELSE IF x > hi THEN hi ELSE x

RECURSIVE SumSeq(_)
SumSeq(s) == IF s = <<>> THEN 0 ELSE Head(s) + SumSeq(Tail(s))

\* np.mean of a non-empty history, else 0; exact fraction
Mean(h) == IF Len(h) > 0 THEN [n |-> SumSeq(h), d |-> Len(h)] ELSE [n |-> 0, d |-> 1]

\* abs(m) > k for a fraction m
AbsGt(m, k) == m.n > k * m.d \/ -m.n > k * m.d

\* a deque that holds one entry more than command_history_size
DequeAppend_one_more(h, x) ==
    IF Len(h) <= command_history_size THEN Append(h, x) ELSE Append(Tail(h), x)

\* deque(maxlen=command_history_size).append
DequeAppend(h, x) ==
    IF Len(h) < command_history_size THEN Append(h, x) ELSE Append(Tail(h), x)

(***************************************************************************)
(* The autopilot state of the specification's state machine                *)
(***************************************************************************)
State ==
    IF emergency_stop THEN "EMERGENCY"
    ELSE IF enabled THEN "ENABLED" ELSE "DISABLED"

ZeroCmd(action) == [vx |-> 0, vy |-> 0, vz |-> 0, yaw |-> 0, action |-> action]

(***************************************************************************)
(* Vision results fed to compute_control.  balance is None or the          *)
(* lateral_balance; the five safe_directions keys are always present.      *)
(***************************************************************************)
AllSafe == [forward |-> TRUE, left |-> TRUE, right |-> TRUE, up |-> TRUE, down |-> TRUE]

\* vision_result['balance']: None, or a dict holding lateral_balance
NoBalance == [none |-> TRUE]

Balance(x) == [lateral_balance |-> x]

Vision(b, f, d, s) ==
    [balance |-> b, flow_magnitude |-> f, danger_level |-> d, safe_directions |-> s]

\* no balance available
VisNoBalance == Vision(NoBalance, 0, 0, AllSafe)
\* centred, low flow (runner scenario 1)
VisLowFlow == Vision(Balance(50), 1500, 0, AllSafe)
\* obstacle ahead, danger 2 but forward unsafe (runner scenario 3)
VisForwardUnsafe == Vision(Balance(100), 6500, 2, [AllSafe EXCEPT !.forward = FALSE])
\* corridor too narrow, danger 3 (runner scenario 4)
VisDanger3 ==
    Vision(Balance(-200), 8200, 3, [AllSafe EXCEPT !.forward = FALSE, !.left = FALSE, !.right = FALSE])
\* warning with all the flow on the right: lateral correction saturates
VisAvoid == Vision(Balance(-1000), 3000, 2, AllSafe)
\* warning with both sides blocked: vertical escape
VisClimb == Vision(Balance(0), 3000, 2, [AllSafe EXCEPT !.left = FALSE, !.right = FALSE])

\* the results that decide the state machine's branches
CoreVisions == {VisNoBalance, VisLowFlow, VisForwardUnsafe, VisDanger3}

Visions == CoreVisions \cup {VisAvoid, VisClimb}

\* the condition of the "emergency situations" branch
Blocked(v) == v.danger_level >= 3 \/ ~v.safe_directions.forward

(***************************************************************************)
(* compute_control, the part after the blocked branch: the command         *)
(* synthesised from the vision result (lines 148-217).                     *)
(***************************************************************************)
LateralCmd(v) ==
    LET vy0 == (-(v.balance.lateral_balance) * 3) \div 10            \* balance_gain = 0.3
        vy1 == IF Abs(vy0) < deadband THEN 0 ELSE vy0
    IN  IF v.danger_level >= 2 THEN (vy1 * 3) \div 2 ELSE vy1

\* flow_error * speed_gain = (flow - target) / (target + 0.01) * 0.2
FlowTerm(f) == ((f - target_flow) * 200) \div (target_flow + 10)

ForwardCmd(v) ==
    LET f == v.flow_magnitude
        base == IF 2 * f < target_flow THEN [vx |-> 200, action |-> "FORWARD_SLOW"]
                ELSE IF 10 * f < 12 * target_flow
                     THEN [vx |-> 150 - FlowTerm(f), action |-> "CRUISE"]
                ELSE IF 2 * f < 3 * target_flow
                     THEN [vx |-> Max(0, 100 - FlowTerm(f)), action |-> "SLOWING"]
                ELSE [vx |-> 0, action |-> "TOO_FAST"]
        caution == IF v.danger_level >= 1
                   THEN [vx |-> base.vx \div 2, action |-> "OBSTACLE_CAUTION"]
                   ELSE base
    IN  IF v.danger_level >= 2 THEN [vx |-> 0, action |-> "OBSTACLE_AVOID"] ELSE caution

VerticalCmd(v) ==
    LET s == v.safe_directions
    IN  IF v.danger_level >= 2 /\ ~s.left /\ ~s.right
        THEN IF s.up THEN [vz |-> 150, action |-> "OBSTACLE_CLIMB"]
             ELSE IF s.down THEN [vz |-> -100, action |-> "OBSTACLE_DESCEND"]
             ELSE [vz |-> 0, action |-> None]
        ELSE [vz |-> 0, action |-> None]

ClampVx(x) == Clip(x, min_vx, max_vx)

\* the lateral clamp left out
ClampVy_missing(y) == y

ClampVy(y) == Clip(y, -max_vy, max_vy)

ClampVz(z) == Clip(z, -max_vz, max_vz)

ClampYaw(w) == Clip(w, -max_yaw, max_yaw)

NormalCmd(v) ==
    LET fwd == ForwardCmd(v)
        ver == VerticalCmd(v)
    IN  [vx |-> ClampVx(fwd.vx),
         vy |-> ClampVy(LateralCmd(v)),
         vz |-> ClampVz(ver.vz),
         yaw |-> ClampYaw(0),
         action |-> IF ver.action # None THEN ver.action ELSE fwd.action,
         balance |-> v.balance.lateral_balance,
         flow |-> v.flow_magnitude,
         danger |-> v.danger_level]

(***************************************************************************)
(* _send_stop: one POST to /api/drone/stop, every failure swallowed        *)
(***************************************************************************)
StopRequest(at) == [path |-> "drone/stop", at |-> at, status |-> "ignored"]

(***************************************************************************)
(* enable / disable / trigger_emergency_stop                               *)
(***************************************************************************)
enable ==
    /\ enabled' = TRUE
    /\ emergency_stop' = FALSE
    /\ op' = "enable"
    /\ requests' = <<>>
    /\ UNCHANGED <<confirmation_mode, vx_history, vy_history, vz_history, yaw_history,
                   last_command_time, last_command, consecutive_stops, now,
                   control_cmd, last_send_at>>
    /\ result' = "None"

\* disable() that also clears the emergency flag
disable_clears_emergency ==
    /\ enabled' = FALSE
    /\ emergency_stop' = FALSE
    /\ requests' = <<StopRequest(now)>>
    /\ vx_history' = <<>>
    /\ vy_history' = <<>>
    /\ vz_history' = <<>>
    /\ yaw_history' = <<>>
    /\ op' = "disable"
    /\ UNCHANGED <<confirmation_mode,
                   last_command_time, last_command, consecutive_stops, now,
                   control_cmd, last_send_at>>
    /\ result' = "None"

disable ==
    /\ enabled' = FALSE
    /\ requests' = <<StopRequest(now)>>
    /\ vx_history' = <<>>
    /\ vy_history' = <<>>
    /\ vz_history' = <<>>
    /\ yaw_history' = <<>>
    /\ op' = "disable"
    /\ UNCHANGED <<emergency_stop, confirmation_mode,
                   last_command_time, last_command, consecutive_stops, now,
                   control_cmd, last_send_at>>
    /\ result' = "None"

trigger_emergency_stop ==
    /\ emergency_stop' = TRUE
    /\ enabled' = FALSE
    /\ requests' = <<StopRequest(now)>>
    /\ op' = "trigger_emergency_stop"
    /\ UNCHANGED <<confirmation_mode, vx_history, vy_history, vz_history, yaw_history,
                   last_command_time, last_command, consecutive_stops, now,
                   control_cmd, last_send_at>>
    /\ result' = "None"

(***************************************************************************)
(* compute_control(vision_result)                                          *)
(***************************************************************************)
compute_control(v) ==
    /\ op' = "compute_control"
    /\ UNCHANGED <<confirmation_mode, vx_history, vy_history, vz_history, yaw_history,
                   last_command_time, last_command, now, last_send_at>>
    /\ result' = "None"
    /\ IF ~enabled \/ emergency_stop
       THEN /\ control_cmd' = ZeroCmd("STOPPED")
            /\ requests' = <<>>
            /\ UNCHANGED <<enabled, emergency_stop, consecutive_stops>>
       ELSE IF v.balance = NoBalance
       THEN /\ control_cmd' = ZeroCmd("NO_VISION")
            /\ requests' = <<>>
            /\ UNCHANGED <<enabled, emergency_stop, consecutive_stops>>
       ELSE IF Blocked(v)
       THEN /\ consecutive_stops < MaxStops
            /\ consecutive_stops' = consecutive_stops + 1
            /\ IF consecutive_stops + 1 >= stop_limit
               THEN /\ emergency_stop' = TRUE
                    /\ enabled' = FALSE
                    /\ requests' = <<StopRequest(now)>>
                    /\ control_cmd' = ZeroCmd("EMERGENCY")
               ELSE /\ control_cmd' = ZeroCmd("STOP")
                    /\ requests' = <<>>
                    /\ UNCHANGED <<enabled, emergency_stop>>
       ELSE /\ consecutive_stops' = 0
            /\ control_cmd' = NormalCmd(v)
            /\ requests' = <<>>
            /\ UNCHANGED <<enabled, emergency_stop>>

(***************************************************************************)
(* _smooth_commands: append to the four histories, return the means        *)
(***************************************************************************)
SmoothCommands(vx, vy, vz, yaw) ==
    LET hx == DequeAppend(vx_history, vx)
        hy == DequeAppend(vy_history, vy)
        hz == DequeAppend(vz_history, vz)
        hw == DequeAppend(yaw_history, yaw)
    IN  [vx_history |-> hx, vy_history |-> hy, vz_history |-> hz, yaw_history |-> hw,
         vx |-> Mean(hx), vy |-> Mean(hy), vz |-> Mean(hz), yaw |-> Mean(hw)]

(***************************************************************************)
(* _send_velocity_command: the discrete commands collected from the        *)
(* velocities (fractions), and the token of the single request issued      *)
(***************************************************************************)
\* the lateral command collected before the vertical one
Commands_lateral_first(vx, vy, vz, yaw_rate) ==
    (IF AbsGt(vy, deadband)
     THEN IF vy.n > 0 THEN <<"move/left">> ELSE <<"move/right">>
     ELSE <<>>)
    \o
    (IF AbsGt(vz, deadband)
     THEN IF vz.n > 0 THEN <<"move/up">> ELSE <<"move/down">>
     ELSE <<>>)
    \o
    (IF AbsGt(yaw_rate, yaw_threshold)
     THEN IF yaw_rate.n > 0 THEN <<"yaw/left">> ELSE <<"yaw/right">>
     ELSE <<>>)

Commands(vx, vy, vz, yaw_rate) ==
    (IF AbsGt(vz, deadband)
     THEN IF vz.n > 0 THEN <<"move/up">> ELSE <<"move/down">>
     ELSE <<>>)
    \o
    (IF AbsGt(vy, deadband)
     THEN IF vy.n > 0 THEN <<"move/left">> ELSE <<"move/right">>
     ELSE <<>>)
    \o
    (IF AbsGt(yaw_rate, yaw_threshold)
     THEN IF yaw_rate.n > 0 THEN <<"yaw/left">> ELSE <<"yaw/right">>
     ELSE <<>>)

SendToken(vx, vy, vz, yaw_rate) ==
    LET commands == Commands(vx, vy, vz, yaw_rate)
    IN  IF commands = <<>> THEN "stop" ELSE Head(commands)

\* what the drone API can answer to the one POST
Outcomes == {"200", "500", "Timeout", "ConnectionError"}

\* _send_velocity_command that takes any HTTP answer for a success
SendVelocityCommand_any_answer(vx, vy, vz, yaw_rate, at, outcome) ==
    [requests |-> <<[path |-> SendToken(vx, vy, vz, yaw_rate), at |-> at, status |-> outcome]>>,
     success |-> (outcome \in {"200", "500"})]

\* the requests _send_velocity_command issues, and whether it returns True
SendVelocityCommand(vx, vy, vz, yaw_rate, at, outcome) ==
    [requests |-> <<[path |-> SendToken(vx, vy, vz, yaw_rate), at |-> at, status |-> outcome]>>,
     success |-> (outcome = "200")]

\* the dict has the keys the prompt and the status line format
HasDisplayKeys(cmd) == "balance" \in DOMAIN cmd

(***************************************************************************)
(* execute_control(control_cmd, confirm): confirm is the override          *)
(* argument, response the answer typed at the prompt, delay the time the   *)
(* prompt waited for it, outcome the API's answer.                         *)
(***************************************************************************)
Confirms == {"None", "True", "False"}

Responses == {"y", "n", "stop"}

\* The inputs one execute_control call can consume: a call made with
\* confirm=False shows no prompt (no response, no wait), and a call whose
\* prompt is not answered 'y' issues no velocity request (no outcome).
ExecInputs ==
    {i \in Confirms \X Responses \X (0..MaxDelay) \X Outcomes :
        /\ (i[1] = "False" => i[2] = "y" /\ i[3] = 0)
        /\ (i[2] # "y" => i[4] = "200")}

NeedConfirm(confirm) == IF confirm = "None" THEN confirmation_mode ELSE confirm = "True"

execute_control(confirm, response, delay, outcome) ==
    /\ control_cmd # NoneCmd
    /\ now + delay <= MaxTime
    /\ op' = "execute_control"
    /\ UNCHANGED <<confirmation_mode, consecutive_stops, control_cmd>>
    /\ IF (~enabled \/ emergency_stop) \/ (now - last_command_time < command_rate_limit)
       THEN /\ result' = "False"
            /\ requests' = <<>>
            /\ UNCHANGED <<enabled, emergency_stop, vx_history, vy_history, vz_history,
                           yaw_history, last_command_time, last_command, now, last_send_at>>
       ELSE LET current_time == now
                sm == SmoothCommands(control_cmd.vx, control_cmd.vy,
                                     control_cmd.vz, control_cmd.yaw)
                need_confirm == NeedConfirm(confirm)
                at == IF need_confirm THEN now + delay ELSE now
                sent == SendVelocityCommand(sm.vx, sm.vy, sm.vz, sm.yaw, at, outcome)
            IN  /\ vx_history' = sm.vx_history
                /\ vy_history' = sm.vy_history
                /\ vz_history' = sm.vz_history
                /\ yaw_history' = sm.yaw_history
                /\ IF need_confirm /\ ~HasDisplayKeys(control_cmd)
                   THEN \* the prompt's f-string raises KeyError before input()
                        /\ result' = "KeyError"
                        /\ requests' = <<>>
                        /\ UNCHANGED <<enabled, emergency_stop, last_command_time,
                                       last_command, now, last_send_at>>
                   ELSE IF need_confirm /\ response = "stop"
                   THEN /\ now' = at
                        /\ emergency_stop' = TRUE
                        /\ enabled' = FALSE
                        /\ requests' = <<StopRequest(at)>>
                        /\ result' = "False"
                        /\ UNCHANGED <<last_command_time, last_command, last_send_at>>
                   ELSE IF need_confirm /\ response # "y"
                   THEN /\ now' = at
                        /\ requests' = <<>>
                        /\ result' = "False"
                        /\ UNCHANGED <<enabled, emergency_stop, last_command_time,
                                       last_command, last_send_at>>
                   ELSE /\ now' = at
                        /\ requests' = sent.requests
                        /\ UNCHANGED <<enabled, emergency_stop>>
                        /\ IF sent.success
                           THEN /\ last_command_time' = current_time
                                /\ last_command' = control_cmd
                                /\ last_send_at' = at
                                /\ result' = IF ~need_confirm /\ ~HasDisplayKeys(control_cmd)
                                             THEN "KeyError"   \* the status line's f-string
                                             ELSE "True"
                           ELSE /\ result' = "False"
                                /\ UNCHANGED <<last_command_time, last_command, last_send_at>>

(***************************************************************************)
(* Time passes between calls.                                              *)
(***************************************************************************)
Tick ==
    /\ now < MaxTime
    /\ now' = now + 1
    /\ op' = "tick"
    /\ requests' = <<>>
    /\ UNCHANGED <<enabled, emergency_stop, confirmation_mode,
                   vx_history, vy_history, vz_history, yaw_history,
                   last_command_time, last_command, consecutive_stops,
                   control_cmd, last_send_at>>
    /\ result' = "None"

ApInit ==
    /\ enabled = FALSE
    /\ emergency_stop = FALSE
    /\ confirmation_mode = TRUE
    /\ vx_history = <<>>
    /\ vy_history = <<>>
    /\ vz_history = <<>>
    /\ yaw_history = <<>>
    /\ last_command_time = 0
    /\ last_command = NoneCmd
    /\ consecutive_stops = 0
    /\ now = StartTime
    /\ control_cmd = NoneCmd
    /\ op = "init"
    /\ result = "None"
    /\ requests = <<>>
    /\ last_send_at = Never

\* VisionProcessor.__init__
DecInit ==
    /\ codec = "None"
    /\ message_count = 0
    /\ nal_count = 0
    /\ total_frames = 0
    /\ codec_frames = <<>>
    /\ processed_frames = <<>>

\* a return value of None
NoValue == [none |-> TRUE]

\* result['motion'] = None
NoMotion == [none |-> TRUE]

\* VisualOdometry.__init__; no frame processed
VoInit ==
    /\ prev_frame = "None"
    /\ prev_kp = NoValue
    /\ prev_desc = NoValue
    /\ trajectory = <<>>
    /\ current_pos = 0
    /\ current_rot = 0
    /\ good_frames = 0
    /\ vo_result = [motion |-> NoMotion, position |-> 0, frame_ready |-> FALSE]

\* TauTTCEstimator.__init__; no call made
TauInit ==
    /\ region_history = <<>>
    /\ tau_result = [region_id |-> "none", size |-> 0, time |-> 0,
                     tau |-> NoValue, tau_dot |-> NoValue, expansion_rate |-> NoValue]
    /\ tau_calls = 0

\* the zones <<row, col>> of a grid
Zones(cols, rows) == (0..(rows - 1)) \X (0..(cols - 1))

\* no frame analyzed
NotAnalyzed ==
    /\ sparse_zones = <<>>
    /\ dense_zones = <<>>
    /\ sparse_result = NoValue
    /\ dense_safe = NoValue
    /\ prev_gray = "None"
    /\ frame_result = NoValue

\* both analyzers as constructed, grid_size=(4, 3), before a 4 x 3 pixel frame
GridInit ==
    /\ grid_size = [cols |-> 4, rows |-> 3]
    /\ frame_size = [width |-> 4, height |-> 3]
    /\ status = [z \in Zones(4, 3) |-> "clear"]
    /\ NotAnalyzed

\* VisionProcessor.__init__: the frame slot and the queue; no thread started
MailboxInit ==
    /\ processed_frame = NoValue
    /\ frame_queue = <<>>
    /\ receiver_pc = "idle"
    /\ consumer_pc = "read"
    /\ latest = NoValue

\* everything but the obstacle analyzers
NoGridInit == DecInit /\ MailboxInit /\ VoInit /\ TauInit

\* the vision components as constructed, before any frame
VisionInit == NoGridInit /\ GridInit

\* no direct call made, no message received
OtherInit ==
    /\ call = NoCall
    /\ message = NoMessage
    /\ nal_units = <<>>
    /\ VisionInit

Init == ApInit /\ OtherInit

Next ==
    \/ enable /\ UNCHANGED otherVars
    \/ disable /\ UNCHANGED otherVars
    \/ trigger_emergency_stop /\ UNCHANGED otherVars
    \/ \E v \in CoreVisions : compute_control(v) /\ UNCHANGED otherVars
    \/ \E i \in ExecInputs : execute_control(i[1], i[2], i[3], i[4]) /\ UNCHANGED otherVars
    \/ Tick /\ UNCHANGED otherVars

Spec == Init /\ [][Next]_vars

(***************************************************************************)
(* The command-synthesis specification: every vision result, silent mode   *)
(* only (execute_control(cmd, confirm=False)), so that the smoothing       *)
(* histories range over every mix of synthesised commands.                 *)
(***************************************************************************)
CmdVisions == {VisLowFlow, VisDanger3, VisAvoid, VisClimb}

NextCmd ==
    \/ enable /\ UNCHANGED otherVars
    \/ disable /\ UNCHANGED otherVars
    \/ \E v \in CmdVisions : compute_control(v) /\ UNCHANGED otherVars
    \/ \E o \in {"200", "500"} : execute_control("False", "y", 0, o) /\ UNCHANGED otherVars
    \/ Tick /\ UNCHANGED otherVars

SpecCmd == Init /\ [][NextCmd]_vars

(***************************************************************************)
(* Predicates shared by the claims                                         *)
(***************************************************************************)
IsZero(cmd) == cmd.vx = 0 /\ cmd.vy = 0 /\ cmd.vz = 0 /\ cmd.yaw = 0

\* the velocity requests (not the /api/drone/stop of _send_stop) in a request list
VelocityRequests(rs) == {i \in DOMAIN rs : rs[i].path # "drone/stop"}

\* lo <= m <= hi for a fraction m
InRange(m, lo, hi) == lo * m.d <= m.n /\ m.n <= hi * m.d

(***************************************************************************)
(* C1.  EMERGENCY is sticky: from EMERGENCY, every step other than         *)
(* enable() leaves the autopilot in EMERGENCY; a compute_control in        *)
(* EMERGENCY returns an all-zero command, an execute_control returns False *)
(* and issues no request.                                                  *)
(***************************************************************************)
C1_EmergencySticky ==
    [][ (State = "EMERGENCY" /\ op' # "enable") =>
            /\ State' = "EMERGENCY"
            /\ (op' = "compute_control" => IsZero(control_cmd'))
            /\ (op' = "execute_control" => result' = "False" /\ requests' = <<>>) ]_vars

\* EMERGENCY was entered by the third stop, disable() ran, and an
\* execute_control was then refused
C1_Witness ==
    /\ State = "EMERGENCY"
    /\ consecutive_stops = stop_limit
    /\ vx_history = <<>> /\ last_command # NoneCmd
    /\ op = "execute_control" /\ result = "False" /\ requests = <<>>

(***************************************************************************)
(* C2.  In ENABLED, a blocked compute_control (danger_level >= 3 or        *)
(* forward unsafe) counts one more stop; the calls that bring the count to *)
(* 1 and 2 return the zero command STOP and leave the autopilot ENABLED,   *)
(* the call that brings it to 3 enters EMERGENCY and returns a zero        *)
(* command.                                                                *)
(***************************************************************************)
C2_ThirdStopEntersEmergency ==
    [][ \A v \in CoreVisions :
          (State = "ENABLED" /\ v.balance # NoBalance /\ Blocked(v) /\ compute_control(v)) =>
            /\ consecutive_stops' = consecutive_stops + 1
            /\ (consecutive_stops \in {0, 1} =>
                    control_cmd' = ZeroCmd("STOP") /\ State' = "ENABLED")
            /\ (consecutive_stops = 2 =>
                    State' = "EMERGENCY" /\ IsZero(control_cmd')) ]_vars

\* the third consecutive stop has just put the autopilot in EMERGENCY
C2_Witness ==
    /\ op = "compute_control"
    /\ consecutive_stops = 3
    /\ State = "EMERGENCY"
    /\ control_cmd = ZeroCmd("EMERGENCY")

(***************************************************************************)
(* C3.  In EMERGENCY every compute_control returns the zero command with   *)
(* action tag EMERGENCY.                                                   *)
(***************************************************************************)
C3_FurtherCallsReturnEmergency ==
    (State = "EMERGENCY" /\ op = "compute_control") => control_cmd = ZeroCmd("EMERGENCY")

(***************************************************************************)
(* C4.  A compute_control made while ENABLED that does not take the        *)
(* blocked branch (it returns a normal command or NO_VISION) leaves        *)
(* consecutive_stops at 0.                                                 *)
(***************************************************************************)
C4_OtherBranchesResetCounter ==
    (op = "compute_control" /\ control_cmd.action \notin {"STOPPED", "STOP", "EMERGENCY"})
        => consecutive_stops = 0

(***************************************************************************)
(* C5.  A velocity request of execute_control is issued at least           *)
(* command_rate_limit after the last successful one, and a call made       *)
(* sooner than that after the last successful send issues no request and   *)
(* returns False.                                                          *)
(***************************************************************************)
C5_RateLimit ==
    [][ (op' = "execute_control" /\ last_send_at # Never) =>
            /\ \A i \in VelocityRequests(requests') :
                   requests'[i].at - last_send_at >= command_rate_limit
            /\ (now - last_send_at < command_rate_limit =>
                   requests' = <<>> /\ result' = "False") ]_vars

(***************************************************************************)
(* C6.  An execute_control issues at most one velocity request; when that  *)
(* request fails the call returns False and leaves last_command_time and   *)
(* last_command unchanged and the autopilot ENABLED; last_command_time     *)
(* changes only in an execute_control whose request was answered 200.      *)
(***************************************************************************)
C6_FailedSendLeavesLimiter ==
    [][ /\ (op' = "execute_control" =>
               /\ Cardinality(VelocityRequests(requests')) <= 1
               /\ \A i \in VelocityRequests(requests') :
                     requests'[i].status # "200" =>
                         /\ Len(requests') = 1
                         /\ result' = "False"
                         /\ last_command_time' = last_command_time
                         /\ last_command' = last_command
                         /\ State' = "ENABLED")
        /\ (last_command_time' # last_command_time =>
               /\ op' = "execute_control"
               /\ \E i \in VelocityRequests(requests') : requests'[i].status = "200") ]_vars

\* a send has failed after an earlier successful one: the limiter still
\* holds the earlier call's time
C6_Witness ==
    /\ op = "execute_control" /\ result = "False"
    /\ Len(requests) = 1 /\ requests[1].status = "Timeout"
    /\ last_command # NoneCmd
    /\ last_command_time < now
    /\ State = "ENABLED"

(***************************************************************************)
(* C7.  Every command compute_control returns has vx in [-0.2, 0.5], vy in *)
(* [-0.3, 0.3], vz in [-0.2, 0.2] and yaw in [-15, 15], and so has the     *)
(* mean of each smoothing history, which is the smoothed command           *)
(* execute_control hands to _send_velocity_command.                        *)
(***************************************************************************)
WithinClamps(x, y, z, w) ==
    /\ InRange(x, min_vx, max_vx)
    /\ InRange(y, -max_vy, max_vy)
    /\ InRange(z, -max_vz, max_vz)
    /\ InRange(w, -max_yaw, max_yaw)

Exact(x) == [n |-> x, d |-> 1]

C7_CommandsWithinClamps ==
    /\ control_cmd # NoneCmd =>
          WithinClamps(Exact(control_cmd.vx), Exact(control_cmd.vy),
                       Exact(control_cmd.vz), Exact(control_cmd.yaw))
    /\ vx_history # <<>> =>
          WithinClamps(Mean(vx_history), Mean(vy_history),
                       Mean(vz_history), Mean(yaw_history))

\* a full history in which the lateral clamp was active on every entry has
\* just been smoothed and sent
C7_Witness ==
    /\ op = "execute_control" /\ requests # <<>>
    /\ vy_history = <<max_vy, max_vy, max_vy, max_vy, max_vy>>
    /\ control_cmd.action = "OBSTACLE_AVOID"

(***************************************************************************)
(* _send_velocity_command called directly, on velocities around the        *)
(* deadband and the yaw threshold.                                         *)
(***************************************************************************)
SendVelocities == {-60, -50, 0, 50, 60}

SendYawRates == {-6000, -5000, 0, 5000, 6000}

SendCalls ==
    [fn : {"_send_velocity_command"}, vx : SendVelocities, vy : SendVelocities,
     vz : SendVelocities, yaw_rate : SendYawRates, outcome : Outcomes, ret : {NoRet}]

send_velocity_command ==
    /\ call.fn = "_send_velocity_command"
    /\ call.ret = NoRet
    /\ call' = [call EXCEPT !.ret = SendVelocityCommand(Exact(call.vx), Exact(call.vy),
                                        Exact(call.vz), Exact(call.yaw_rate),
                                        now, call.outcome)]
    /\ UNCHANGED <<apVars, message, nal_units, visionVars>>

InitSend ==
    /\ ApInit
    /\ call \in SendCalls
    /\ message = NoMessage
    /\ nal_units = <<>>
    /\ VisionInit

NextSend == send_velocity_command

SpecSend == InitSend /\ [][NextSend]_vars

(***************************************************************************)
(* _smooth_commands called repeatedly with one command, from any prior     *)
(* history of commands that compute_control produces.                      *)
(***************************************************************************)
Velocities(cmd) == <<cmd.vx, cmd.vy, cmd.vz, cmd.yaw>>

SmoothCmds ==
    {Velocities(ZeroCmd("STOP"))} \cup {Velocities(NormalCmd(v)) : v \in {VisLowFlow, VisAvoid, VisClimb}}

PriorHistories == UNION {[1..k -> SmoothCmds] : k \in 0..command_history_size}

Column(h, j) == [i \in 1..Len(h) |-> h[i][j]]

smooth_commands ==
    /\ call.fn = "_smooth_commands"
    /\ call.n < MaxApply
    /\ LET sm == SmoothCommands(call.cmd[1], call.cmd[2], call.cmd[3], call.cmd[4])
       IN  /\ vx_history' = sm.vx_history
           /\ vy_history' = sm.vy_history
           /\ vz_history' = sm.vz_history
           /\ yaw_history' = sm.yaw_history
           /\ call' = [call EXCEPT !.n = call.n + 1,
                                   !.ret = <<sm.vx, sm.vy, sm.vz, sm.yaw>>]
    /\ UNCHANGED <<enabled, emergency_stop, confirmation_mode, last_command_time,
                   last_command, consecutive_stops, now, control_cmd, op, result,
                   requests, last_send_at, message, nal_units, visionVars>>

InitSmooth ==
    /\ enabled = TRUE
    /\ emergency_stop = FALSE
    /\ confirmation_mode = TRUE
    /\ \E h \in PriorHistories :
          /\ vx_history = Column(h, 1)
          /\ vy_history = Column(h, 2)
          /\ vz_history = Column(h, 3)
          /\ yaw_history = Column(h, 4)
          /\ \E c \in SmoothCmds :
                call = [fn |-> "_smooth_commands", cmd |-> c, n |-> 0,
                        prior |-> Len(h), ret |-> NoRet]
    /\ last_command_time = 0
    /\ last_command = NoneCmd
    /\ consecutive_stops = 0
    /\ now = StartTime
    /\ control_cmd = NoneCmd
    /\ op = "init"
    /\ result = "None"
    /\ requests = <<>>
    /\ last_send_at = Never
    /\ message = NoMessage
    /\ nal_units = <<>>
    /\ VisionInit

NextSmooth == smooth_commands

SpecSmooth == InitSmooth /\ [][NextSmooth]_vars

(***************************************************************************)
(* C8.  _send_velocity_command issues exactly one request, whose token is  *)
(* chosen with priority vertical > lateral > yaw: move/up or move/down by  *)
(* the sign of vz when |vz| > deadband; else move/left (vy > 0) or         *)
(* move/right (vy < 0) when |vy| > deadband; else yaw/left or yaw/right    *)
(* when |yaw| > 5; else stop.  vx takes no part in the choice.             *)
(***************************************************************************)
C8_Token(vy, vz, yaw_rate) ==
    IF vz > deadband THEN "move/up"
    ELSE IF vz < -deadband THEN "move/down"
    ELSE IF vy > deadband THEN "move/left"
    ELSE IF vy < -deadband THEN "move/right"
    ELSE IF yaw_rate > yaw_threshold THEN "yaw/left"
    ELSE IF yaw_rate < -yaw_threshold THEN "yaw/right"
    ELSE "stop"

C8_OneTokenByPriority ==
    (call.fn = "_send_velocity_command" /\ call.ret # NoRet) =>
        /\ Len(call.ret.requests) = 1
        /\ call.ret.requests[1].path = C8_Token(call.vy, call.vz, call.yaw_rate)

\* all three components are over their thresholds and the vertical one won
C8_Witness ==
    /\ call.fn = "_send_velocity_command" /\ call.ret # NoRet
    /\ call.vz = -60 /\ call.vy = 60 /\ call.yaw_rate = 6000 /\ call.vx = 60
    /\ call.ret.requests[1].path = "move/down"

(***************************************************************************)
(* C9.  In exact arithmetic, _smooth_commands applied N times to one       *)
(* command returns that command: from an empty history for every N >= 1,   *)
(* and from any prior history once N >= command_history_size.              *)
(***************************************************************************)
IsValue(m, x) == m.n = x * m.d

max_nal_length == 100000

SegmentLen(seg) == Len(seg.bytes) + seg.pad

RECURSIVE MessageLen(_)
MessageLen(data) ==
    IF data = <<>> THEN 0 ELSE SegmentLen(Head(data)) + MessageLen(Tail(data))

\* data[i], for 0 <= i < len(data)
RECURSIVE ByteAt(_, _)
ByteAt(data, i) ==
    LET seg == Head(data)
    IN  IF i < Len(seg.bytes) THEN seg.bytes[i + 1]
        ELSE IF i < SegmentLen(seg) THEN 0
        ELSE ByteAt(Tail(data), i - SegmentLen(seg))

\* the 4-byte big-endian length read at offset.  Python integers do not
\* overflow; a length of 2^31 or more is written as 2^31 - 1 here, which like
\* it is above max_nal_length.
LengthAt(data, offset) ==
    IF ByteAt(data, offset) >= 128
    THEN 2147483647
    ELSE ByteAt(data, offset) * 2^24 + ByteAt(data, offset + 1) * 2^16
             + ByteAt(data, offset + 2) * 2^8 + ByteAt(data, offset + 3)

\* the while loop of _parse_nal_units, entered at offset with nal_units = units
RECURSIVE ParseLoop(_, _, _)
ParseLoop(data, offset, units) ==
    IF offset + 4 < MessageLen(data)
    THEN LET length == LengthAt(data, offset)
         IN  IF length > 0 /\ length <= max_nal_length
                           /\ offset + 4 + length <= MessageLen(data)
             THEN ParseLoop(data, offset + 4 + length,
                            Append(units, [start |-> offset + 4,
                                           stop |-> offset + 4 + length]))
             ELSE units
    ELSE units

ParseNalUnits(data) ==
    LET units == ParseLoop(data, 0, <<>>)
    IN  IF units = <<>> THEN <<[start |-> 0, stop |-> MessageLen(data)]>> ELSE units

\* the messages fed to the demuxer: up to MaxSegments segments, each an
\* optional length prefix followed by a run of zero bytes
BigEndian(n) == <<n \div 2^24, (n \div 2^16) % 256, (n \div 2^8) % 256, n % 256>>

PrefixValues == {0, 1, 2, max_nal_length, max_nal_length + 1, 2^24}

PadLengths == {0, 1, 2, max_nal_length, max_nal_length + 1}

Segments ==
    [bytes : {<<>>} \cup {BigEndian(n) : n \in PrefixValues}, pad : PadLengths]

Messages == UNION {[1..k -> Segments] : k \in 0..MaxSegments}

\* _on_message hands the message received to _parse_nal_units
parse_nal_units ==
    /\ nal_units = <<>>
    /\ nal_units' = ParseNalUnits(message)
    /\ UNCHANGED <<apVars, call, message, visionVars>>

InitDemux ==
    /\ ApInit
    /\ call = NoCall
    /\ message \in Messages
    /\ nal_units = <<>>
    /\ VisionInit

NextDemux == parse_nal_units

SpecDemux == InitDemux /\ [][NextDemux]_vars

(***************************************************************************)
(* C10.  No unit the demuxer emits is longer than 100 000 bytes.           *)
(***************************************************************************)
C10_UnitsWithinLimit ==
    \A i \in DOMAIN nal_units : nal_units[i].stop - nal_units[i].start <= max_nal_length

(***************************************************************************)
(* C11.  A length prefix that is zero, above 100 000 or longer than the    *)
(* bytes that remain makes the demuxer emit the entire chunk as a single   *)
(* unit, also when well-formed units precede it in the chunk; the demuxer  *)
(* emits at least one unit for every chunk.                                *)
(***************************************************************************)
\* the offset at which the while loop of _parse_nal_units ends
RECURSIVE LoopExit(_, _)
LoopExit(data, offset) ==
    IF offset + 4 < MessageLen(data)
    THEN LET length == LengthAt(data, offset)
         IN  IF length > 0 /\ length <= max_nal_length
                           /\ offset + 4 + length <= MessageLen(data)
             THEN LoopExit(data, offset + 4 + length)
             ELSE offset
    ELSE offset

\* the loop ended at its break: the prefix read at LoopExit was rejected
BadPrefixMet(data) == LoopExit(data, 0) + 4 < MessageLen(data)

WholeChunk(data) == <<[start |-> 0, stop |-> MessageLen(data)]>>

C11_BadPrefixEmitsWholeChunk ==
    [][parse_nal_units =>
          /\ Len(nal_units') >= 1
          /\ BadPrefixMet(message) => nal_units' = WholeChunk(message)]_vars

(***************************************************************************)
(* The frame decoder, VisionProcessor._on_message and _decode_nal.         *)
(*                                                                         *)
(* The codec is external: what codec.decode does with a unit is an input,  *)
(* either an exception or a list of 0..MaxCodecFrames frames.  A frame is  *)
(* named by the unit that produced it and its index in the returned list.  *)
(* The fps statistics (fps, frame_count, last_fps_time) are not modelled;  *)
(* processed_frame is the last entry of processed_frames.                  *)
(***************************************************************************)
MaxCodecFrames == 2

CodecOutcomes ==
    {[raised |-> TRUE, frames |-> 0]} \cup [raised : {FALSE}, frames : 0..MaxCodecFrames]

\* the list codec.decode(packet) returns for unit i when it yields k frames
CodecFrames(i, k) == [j \in 1..k |-> [unit |-> i, index |-> j]]

Decoder ==
    [codec |-> codec, nal_count |-> nal_count, total_frames |-> total_frames,
     codec_frames |-> codec_frames, processed_frames |-> processed_frames]

\* _decode_nal(nal_data) for unit i of the message; ret is <<>> for None,
\* else the one frame returned
DecodeNal(st, i, unit, outcome) ==
    LET created == [st EXCEPT !.codec = "h264"]
        counted == [created EXCEPT !.nal_count = @ + 1]
        frames  == CodecFrames(i, outcome.frames)
    IN  IF unit.stop = unit.start
        THEN [st |-> created, ret |-> <<>>]        \* nal_data[0] raises IndexError
        ELSE IF outcome.raised
        THEN [st |-> counted, ret |-> <<>>]        \* codec.decode raises
        ELSE [st  |-> [counted EXCEPT !.codec_frames = @ \o frames],
              \* "for frame in frames: ... return img" returns at the first frame
              ret |-> IF frames = <<>> THEN <<>> ELSE <<frames[1]>>]

\* the loop "for nal_data in nal_units" of _on_message, from unit i on
RECURSIVE DecodeLoop(_, _, _, _)
DecodeLoop(st, units, outcomes, i) ==
    IF i > Len(units) THEN st
    ELSE LET d == DecodeNal(st, i, units[i], outcomes[i])
             after == IF d.ret # <<>>
                      THEN [d.st EXCEPT !.processed_frames = Append(@, d.ret[1]),
                                        !.total_frames = @ + 1]
                      ELSE d.st
         IN  DecodeLoop(after, units, outcomes, i + 1)

\* _on_message(ws, message), the codec answering unit i with outcomes[i]
on_message(outcomes) ==
    /\ message_count = 0
    /\ message_count' = message_count + 1
    /\ LET units == ParseNalUnits(message)
           st == DecodeLoop(Decoder, units, outcomes, 1)
       IN  /\ Len(outcomes) = Len(units)
           /\ nal_units' = units
           /\ codec' = st.codec
           /\ nal_count' = st.nal_count
           /\ total_frames' = st.total_frames
           /\ codec_frames' = st.codec_frames
           /\ processed_frames' = st.processed_frames
           /\ processed_frame' = IF st.processed_frames = <<>> THEN processed_frame
                                  ELSE st.processed_frames[Len(st.processed_frames)]
    /\ UNCHANGED <<apVars, call, message, frame_queue, receiver_pc, consumer_pc, latest,
                   voVars, tauVars, gridVars>>

InitDecode == InitDemux

NextDecode ==
    \E outcomes \in [1..Len(ParseNalUnits(message)) -> CodecOutcomes] : on_message(outcomes)

SpecDecode == InitDecode /\ [][NextDecode]_vars

(***************************************************************************)
(* C12.  Every frame the codec yields is handed to frame processing, in    *)
(* codec output order: the processed frames are exactly the frames the     *)
(* codec produced.                                                         *)
(***************************************************************************)
C12_EveryCodecFrameProcessed == processed_frames = codec_frames

(***************************************************************************)
(* Visual odometry, VisualOdometry.process_frame.                          *)
(*                                                                         *)
(* What OpenCV finds in a frame is an input: either no pose (no            *)
(* descriptors, knnMatch raising, fewer than 8 good matches, no essential  *)
(* matrix) or a pose (R, t, mask) from recoverPose.  The pose is taken     *)
(* along one axis: R a rotation about z and t a translation along z, so    *)
(* that current_rot.dot(t) = t and R.dot(current_rot) adds up.  A pose is  *)
(* given by t = ||t|| in tenths, r = ||R - I|| in hundredths and the       *)
(* inlier count; current_pos is the z position in tenths and current_rot   *)
(* the rotation accumulated, in hundredths.  The statistics total_frames   *)
(* and stationary_frames are written and never read; they are left out.    *)
(* The frame itself is one of two distinguishable gray images; its         *)
(* keypoints and descriptors are known by the image they were computed     *)
(* from, and the descriptors are None when the kind is "no_descriptors".   *)
(* Nothing is matched when the stored descriptors are None (line 93).      *)
(***************************************************************************)
trajectory_maxlen == 500
min_translation == 5
min_rotation == 15
min_inliers == 30
scale == 1

MaxMotions == 4
MaxTrajectory == 502

\* a deque that never drops its oldest entry
TrajectoryAppend_keeps_all(traj, pos) == Append(traj, pos)

\* deque(maxlen=500).append
TrajectoryAppend(traj, pos) ==
    IF Len(traj) < trajectory_maxlen THEN Append(traj, pos) ELSE Append(Tail(traj), pos)

NoPose == [kind : {"no_descriptors", "knn_error", "few_matches", "no_essential"},
           t : {0}, r : {0}, inliers : {0}]

Pose(t, r, inliers) == [kind |-> "pose", t |-> t, r |-> r, inliers |-> inliers]

\* cv2.cvtColor(frame, cv2.COLOR_BGR2GRAY) of two different frames
GrayFrames == {"gray_a", "gray_b"}

\* the frame gray with m found in it
Seen(gray, m) ==
    [frame |-> gray, kind |-> m.kind, t |-> m.t, r |-> m.r, inliers |-> m.inliers]

Motions ==
    {Seen(gray, m) : gray \in GrayFrames,
                     m \in NoPose \cup {Pose(t, r, n) :
                                           t \in {min_translation, min_translation + 1},
                                           r \in {min_rotation, min_rotation + 1},
                                           n \in {min_inliers - 1, min_inliers}}}

\* kp, desc = self.orb.detectAndCompute(gray, None)
Keypoints(m) == [kp_of |-> m.frame]

Descriptors(m) == IF m.kind = "no_descriptors" THEN NoValue ELSE [desc_of |-> m.frame]

StoredFrame_kept_on_error(prev, m) == IF m.kind = "knn_error" THEN prev ELSE m.frame

\* self.prev_frame = gray, on the first frame, when knnMatch raises and at the end
StoredFrame(prev, m) == m.frame

\* recoverPose was reached: the stored descriptors were matched and gave a pose
HasPose(m) == prev_desc # NoValue /\ m.kind = "pose"

\* lines 137-139
IsMoving(m) ==
    (m.t > min_translation \/ m.r > min_rotation) /\ m.inliers >= min_inliers

MotionOf(m, moving) ==
    [moving |-> moving, t_mag |-> m.t, r_mag |-> m.r, inliers |-> m.inliers]

\* process_frame(frame), OpenCV finding m in the frame
process_frame(m) ==
    /\ prev_frame' = StoredFrame(prev_frame, m)
    /\ prev_kp' = Keypoints(m)
    /\ prev_desc' = Descriptors(m)
    /\ IF prev_frame = "None"
       THEN /\ trajectory' = TrajectoryAppend(trajectory, current_pos)
            /\ vo_result' = [motion |-> NoMotion, position |-> current_pos,
                             frame_ready |-> FALSE]
            /\ UNCHANGED <<current_pos, current_rot, good_frames>>
       ELSE IF HasPose(m) /\ IsMoving(m)
       THEN /\ current_pos' = current_pos + m.t * scale
            /\ current_rot' = current_rot + m.r
            /\ trajectory' = TrajectoryAppend(trajectory, current_pos')
            /\ good_frames' = good_frames + 1
            /\ vo_result' = [motion |-> MotionOf(m, TRUE), position |-> current_pos,
                             frame_ready |-> TRUE]
       ELSE /\ vo_result' = [motion |-> IF HasPose(m) THEN MotionOf(m, FALSE)
                                                    ELSE NoMotion,
                             position |-> current_pos,
                             frame_ready |-> HasPose(m)]
            /\ UNCHANGED <<trajectory, current_pos, current_rot, good_frames>>
    /\ UNCHANGED <<apVars, call, message, nal_units, decVars, mbVars, tauVars, gridVars>>

NextVO == \E m \in Motions : good_frames < MaxMotions /\ process_frame(m)

SpecVO == Init /\ [][NextVO]_vars

(***************************************************************************)
(* C13.  Motion gating: process_frame updates the pose and appends to the  *)
(* trajectory only when translation > 0.5 and rotation > 0.15 and          *)
(* inliers >= 30 all hold; if any one of the three fails the frame is      *)
(* marked stationary and pose and trajectory are unchanged.                *)
(***************************************************************************)
AllThree(m) == m.t > 5 /\ m.r > 15 /\ m.inliers >= 30

C13_MotionGate ==
    [][\A m \in Motions :
          (prev_frame # "None" /\ HasPose(m) /\ process_frame(m)) =>
              IF AllThree(m)
              THEN /\ vo_result'.motion.moving
                   /\ current_pos' # current_pos
                   /\ trajectory' # trajectory
              ELSE /\ ~vo_result'.motion.moving
                   /\ UNCHANGED <<current_pos, current_rot, trajectory>>]_vars

(***************************************************************************)
(* The trajectory over long runs: one accepted pose, one stationary pose   *)
(* and one frame without a pose, for up to MaxTrajectory accepted frames.  *)
(***************************************************************************)
TrajMotions ==
    {Seen("gray_a", m) :
        m \in {Pose(min_translation + 1, min_rotation + 1, min_inliers),
               Pose(min_translation, min_rotation, min_inliers),
               [kind |-> "few_matches", t |-> 0, r |-> 0, inliers |-> 0]}}

NextTraj == \E m \in TrajMotions : good_frames < MaxTrajectory /\ process_frame(m)

SpecTraj == Init /\ [][NextTraj]_vars

(***************************************************************************)
(* C14.  The trajectory has at most 500 entries; it grows by exactly one   *)
(* entry, the new current position appended at the end, on the first       *)
(* frame and on each accepted motion, and when it is full the oldest       *)
(* entry is dropped, so that it retains the most recent 500 in append      *)
(* order; every other frame leaves it unchanged.                           *)
(***************************************************************************)
Accepted(res) == res.motion # NoMotion /\ res.motion.moving

C14_TrajectoryBounded ==
    [][/\ Len(trajectory') <= 500
       /\ IF prev_frame = "None" \/ Accepted(vo_result')
          THEN /\ trajectory'[Len(trajectory')] = current_pos'
               /\ IF Len(trajectory) < 500
                  THEN /\ Len(trajectory') = Len(trajectory) + 1
                       /\ SubSeq(trajectory', 1, Len(trajectory)) = trajectory
                  ELSE SubSeq(trajectory', 1, 499) = Tail(trajectory)
          ELSE trajectory' = trajectory]_vars

\* the trajectory is full and its first (oldest) entry has been dropped
C14_Witness ==
    /\ Len(trajectory) = 500
    /\ trajectory[1] > 0
    /\ trajectory[500] = current_pos
    /\ good_frames > 500

(***************************************************************************)
(* The tau estimator, TauTTCEstimator.compute_tau.                         *)
(*                                                                         *)
(* Times are whole multiples of half a microsecond, so that a difference   *)
(* can fall below, on and above the 1e-6 s threshold; sizes are whole      *)
(* pixels.  Rates and taus are exact fractions [n, d] with d # 0: a rate   *)
(* in pixels per time unit, a tau in time units.  numpy divides by zero    *)
(* without raising (inf or nan), which leaves tau_dot None.                *)
(***************************************************************************)
UnitsPerSecond == 2000000

\* 1e-6 seconds
tau_epsilon == 2

min_size_one_less == 10 - 1

min_size == 10

\* min_rate = 0.1 pixels per second is one pixel per MinRatePeriod units
MinRatePeriod == 10 * UnitsPerSecond

tau_history_len == 10

Sign(x) == IF x > 0 THEN 1 ELSE IF x < 0 THEN -1 ELSE 0

\* s[-n:]
LastN(s, n) == IF Len(s) > n THEN SubSeq(s, Len(s) - n + 1, Len(s)) ELSE s

\* a history cut that forgets to cut the times
KeepRecent_sizes_only(h) ==
    IF Len(h.sizes) > tau_history_len
    THEN [h EXCEPT !.sizes = LastN(h.sizes, tau_history_len)]
    ELSE h

\* lines 66-68
KeepRecent(h) ==
    IF Len(h.sizes) > tau_history_len
    THEN [sizes |-> LastN(h.sizes, tau_history_len),
          times |-> LastN(h.times, tau_history_len)]
    ELSE h

\* abs(ds / dt) < min_rate, for dt # 0
BelowMinRate(ds, dt) == Abs(ds) * MinRatePeriod < Abs(dt)

\* lines 96-105: tau_dot from the last three samples, given tau = size * dt / ds
TauDot(h, dt, ds) ==
    LET k == Len(h.sizes)
    IN  IF k < 3 THEN NoValue
        ELSE LET prev_size == h.sizes[k - 1]
                 prev_ds == h.sizes[k - 1] - h.sizes[k - 2]
                 prev_dt == h.times[k - 1] - h.times[k - 2]
             IN  IF prev_dt = 0 THEN NoValue            \* prev_rate is inf or nan
                 ELSE IF BelowMinRate(prev_ds, prev_dt) THEN NoValue
                 ELSE IF Sign(prev_ds) * Sign(prev_dt) <= 0 THEN NoValue   \* prev_tau <= 0
                 ELSE [n |-> h.sizes[k] * dt * prev_ds - prev_size * prev_dt * ds,
                       d |-> ds * prev_ds * dt]

\* lines 70-107: what compute_tau returns once the sample is in history h
TauOf(h, current_size) ==
    LET k == Len(h.sizes)
        none == [tau |-> NoValue, tau_dot |-> NoValue, expansion_rate |-> NoValue]
    IN  IF k < 2 THEN none
        ELSE LET dt == h.times[k] - h.times[k - 1]
                 ds == h.sizes[k] - h.sizes[k - 1]
                 rate == [n |-> ds, d |-> dt]
             IN  IF dt < tau_epsilon THEN none
                 ELSE IF BelowMinRate(ds, dt) THEN none
                 ELSE IF ds < 0 THEN [none EXCEPT !.expansion_rate = rate]   \* tau < 0
                 ELSE [tau |-> [n |-> current_size * dt, d |-> ds],
                       tau_dot |-> TauDot(h, dt, ds),
                       expansion_rate |-> rate]

Returned(region_id, current_size, current_time, ret) ==
    [region_id |-> region_id, size |-> current_size, time |-> current_time,
     tau |-> ret.tau, tau_dot |-> ret.tau_dot, expansion_rate |-> ret.expansion_rate]

\* compute_tau(region_id, current_size, current_time)
compute_tau(region_id, current_size, current_time) ==
    LET none == [tau |-> NoValue, tau_dot |-> NoValue, expansion_rate |-> NoValue]
    IN  /\ IF current_size < min_size
           THEN /\ tau_result' = Returned(region_id, current_size, current_time, none)
                /\ UNCHANGED region_history
           ELSE IF region_id \notin DOMAIN region_history
           THEN /\ region_history' = region_history @@
                       (region_id :> [sizes |-> <<current_size>>, times |-> <<current_time>>])
                /\ tau_result' = Returned(region_id, current_size, current_time, none)
           ELSE LET old == region_history[region_id]
                    h == KeepRecent([sizes |-> Append(old.sizes, current_size),
                                     times |-> Append(old.times, current_time)])
                IN  /\ region_history' = [region_history EXCEPT ![region_id] = h]
                    /\ tau_result' = Returned(region_id, current_size, current_time,
                                              TauOf(h, current_size))
        /\ tau_calls' = tau_calls + 1
        /\ UNCHANGED <<apVars, call, message, nal_units, decVars, mbVars, voVars, gridVars>>

RegionIds == {"a", "b"}

TauSizes == {min_size - 1, min_size, min_size + 2}

\* two readings half a microsecond apart, one a microsecond later, one 20 s later
TauTimes == {0, 1, 2, 20 * UnitsPerSecond}

MaxTauCalls == 3

NextTau ==
    \E id \in RegionIds, size \in TauSizes, time \in TauTimes :
        tau_calls < MaxTauCalls /\ compute_tau(id, size, time)

SpecTau == Init /\ [][NextTau]_vars

(***************************************************************************)
(* C15.  For every region id, after any sequence of compute_tau calls,     *)
(* the sample times stored in the region's history are strictly            *)
(* increasing.                                                             *)
(***************************************************************************)
C15_TimesStrictlyIncreasing ==
    \A id \in DOMAIN region_history :
        \A i, j \in DOMAIN region_history[id].times :
            i < j => region_history[id].times[i] < region_history[id].times[j]

(***************************************************************************)
(* C16.  compute_tau returns no tau while the region holds at most one     *)
(* sample: the first accepted sample returns None, and so does every       *)
(* further sample whose time differs from the previous sample's time by    *)
(* less than 1e-6; a sample of size < 10 returns None and leaves the       *)
(* region history unchanged.                                               *)
(***************************************************************************)
Stored(hist, id) == IF id \in DOMAIN hist THEN Len(hist[id].times) ELSE 0

C16_NoTauWithoutTwoDistinctTimes ==
    [][LET r == tau_result'
           id == r.region_id
       IN  tau_calls' # tau_calls =>
             /\ Stored(region_history', id) <= 1 => r.tau = NoValue
             /\ r.size < 10 => r.tau = NoValue /\ region_history' = region_history
             /\ (r.size >= 10 /\ Stored(region_history, id) = 0) =>
                    r.tau = NoValue /\ Stored(region_history', id) = 1
             /\ (r.size >= 10 /\ Stored(region_history, id) >= 1
                   /\ Abs(r.time - region_history[id].times[Stored(region_history, id)]) < 2) =>
                    r.tau = NoValue]_vars

\* a region whose second sample repeated the first one's time got a tau
\* from its third sample, a microsecond later
C16_Witness ==
    /\ tau_result.tau # NoValue
    /\ Stored(region_history, tau_result.region_id) = 3
    /\ LET times == region_history[tau_result.region_id].times
       IN  times[1] = times[2] /\ times[3] - times[2] = 2

(***************************************************************************)
(* The tau histories over long runs: a looming region sampled every        *)
(* microsecond on two region ids, mixed with readings that are too small.  *)
(***************************************************************************)
MaxHistoryCalls == 11

NextTauHistory ==
    \E reading \in {<<"a", min_size + tau_calls>>, <<"b", min_size + tau_calls>>,
                    <<"a", min_size - 1>>} :
        tau_calls < MaxHistoryCalls /\ compute_tau(reading[1], reading[2], tau_epsilon * tau_calls)

SpecTauHistory == Init /\ [][NextTauHistory]_vars

(***************************************************************************)
(* C17.  After any sequence of compute_tau calls every region's history    *)
(* holds at most 10 samples, its sizes and times lists have equal length,  *)
(* and the retained samples are the most recently accepted ones in         *)
(* arrival order: an accepted sample goes to the end, the oldest is        *)
(* dropped when 10 are held, and nothing else changes.                     *)
(***************************************************************************)
HistoryOf(hist, id) == IF id \in DOMAIN hist THEN hist[id] ELSE [sizes |-> <<>>, times |-> <<>>]

AppendedTo(old, new, x) ==
    /\ new # <<>>
    /\ new[Len(new)] = x
    /\ SubSeq(new, 1, Len(new) - 1) = IF Len(old) < 10 THEN old ELSE Tail(old)

C17_HistoryBounded ==
    [][LET r == tau_result'
           id == r.region_id
       IN  tau_calls' # tau_calls =>
             /\ \A k \in DOMAIN region_history' :
                   /\ Len(region_history'[k].sizes) <= 10
                   /\ Len(region_history'[k].sizes) = Len(region_history'[k].times)
                   /\ k # id => k \in DOMAIN region_history
                                  /\ region_history'[k] = region_history[k]
             /\ r.size < 10 => region_history' = region_history
             /\ r.size >= 10 =>
                   /\ AppendedTo(HistoryOf(region_history, id).sizes,
                                 HistoryOf(region_history', id).sizes, r.size)
                   /\ AppendedTo(HistoryOf(region_history, id).times,
                                 HistoryOf(region_history', id).times, r.time)]_vars

\* region a took eleven samples in a row: the first one has been dropped
C17_Witness ==
    /\ "a" \in DOMAIN region_history
    /\ Len(region_history["a"].times) = 10
    /\ region_history["a"].times[1] = 2
    /\ region_history["a"].times[10] = 20
    /\ region_history["a"].sizes[1] = 11
    /\ tau_result.tau # NoValue

(***************************************************************************)
(* Safe-direction inference of both obstacle analyzers.                    *)
(*                                                                         *)
(* The zones handed to _update_safe_directions are given by the grid size  *)
(* and the status of each zone <<row, col>>.  The dense analyzer has no    *)
(* status field: it flags a zone by "expanding and expansion_rate >        *)
(* expansion_threshold", which is taken to hold of the zones whose         *)
(* status is warning or danger, so that both analyzers see the same        *)
(* zones.                                                                  *)
(***************************************************************************)
MaxCols == 4
MaxRows == 3
MaxFlagged == 2

Flagged(cols, rows, st) == {z \in Zones(cols, rows) : st[z] \in {"warning", "danger"}}

\* the zones in the order the analyzers build them: row by row
ZoneOrder(cols, rows) ==
    [i \in 1..(rows * cols) |-> <<(i - 1) \div cols, (i - 1) % cols>>]

\* obstacle_detector_fast.py: zone <<row, col>> sets the flags by if / elif
SparseSafe(cols, rows, st) ==
    LET F == Flagged(cols, rows, st)
    IN  [forward |-> ~\E z \in F : z[2] \in 1..(cols - 2) /\ z[1] \in 1..(rows - 2),
         left    |-> ~\E z \in F : z[2] = 0,
         right   |-> ~\E z \in F : z[2] # 0 /\ z[2] = cols - 1,
         up      |-> ~\E z \in F : z[1] = 0,
         down    |-> ~\E z \in F : z[1] # 0 /\ z[1] = rows - 1]

SparseDangerLevel_counts_caution(cols, rows, st) ==
    IF \E z \in Zones(cols, rows) : st[z] = "danger" THEN 3
    ELSE IF \E z \in Zones(cols, rows) : st[z] = "warning" THEN 2
    ELSE IF \E z \in Zones(cols, rows) : st[z] = "caution" THEN 1
    ELSE 0

\* danger -> max(., 3), warning -> max(., 2)
SparseDangerLevel(cols, rows, st) ==
    IF \E z \in Zones(cols, rows) : st[z] = "danger" THEN 3
    ELSE IF \E z \in Zones(cols, rows) : st[z] = "warning" THEN 2
    ELSE 0

SparseWarnings(cols, rows, st) ==
    LET flagged == SelectSeq(ZoneOrder(cols, rows), LAMBDA z : z \in Flagged(cols, rows, st))
    IN  [i \in 1..Len(flagged) |-> [level |-> st[flagged[i]], zone |-> flagged[i]]]

\* ObstacleDetectorFast._update_safe_directions(result)
update_safe_directions ==
    /\ sparse_result = NoValue
    /\ sparse_result' =
          [safe_directions |-> SparseSafe(grid_size.cols, grid_size.rows, status),
           warnings |-> SparseWarnings(grid_size.cols, grid_size.rows, status),
           danger_level |-> SparseDangerLevel(grid_size.cols, grid_size.rows, status)]
    /\ UNCHANGED <<apVars, call, message, nal_units, decVars, mbVars, voVars, tauVars,
                   grid_size, frame_size, status, sparse_zones, dense_zones, dense_safe,
                   prev_gray, frame_result>>

\* obstacle_detector.py: independent ifs, forward from the one centre cell
DenseSafe(cols, rows, st) ==
    LET F == Flagged(cols, rows, st)
    IN  [forward |-> ~\E z \in F : z[2] = cols \div 2 /\ z[1] = rows \div 2,
         left    |-> ~\E z \in F : z[2] = 0,
         right   |-> ~\E z \in F : z[2] = cols - 1,
         up      |-> ~\E z \in F : z[1] = 0,
         down    |-> ~\E z \in F : z[1] = rows - 1]

\* ObstacleDetector._update_safe_directions(zones)
update_safe_directions_dense ==
    /\ dense_safe = NoValue
    /\ dense_safe' = DenseSafe(grid_size.cols, grid_size.rows, status)
    /\ UNCHANGED <<apVars, call, message, nal_units, decVars, mbVars, voVars, tauVars,
                   grid_size, frame_size, status, sparse_zones, dense_zones, sparse_result,
                   prev_gray, frame_result>>

\* the subsets of Z with at most k members
RECURSIVE SmallSubsets(_, _)
SmallSubsets(Z, k) ==
    IF k = 0 THEN {{}}
    ELSE LET P == SmallSubsets(Z, k - 1) IN P \cup {s \cup {z} : s \in P, z \in Z}

\* every grid up to MaxCols x MaxRows with up to MaxFlagged zones not clear
InitSafe ==
    /\ ApInit
    /\ call = NoCall
    /\ message = NoMessage
    /\ nal_units = <<>>
    /\ NoGridInit
    /\ frame_size = [width |-> 4, height |-> 3]
    /\ NotAnalyzed
    /\ \E cols \in 1..MaxCols, rows \in 1..MaxRows :
          /\ grid_size = [cols |-> cols, rows |-> rows]
          /\ \E S \in SmallSubsets(Zones(cols, rows), MaxFlagged) :
                \E g \in [S -> {"caution", "warning", "danger"}] :
                    status = [z \in Zones(cols, rows) |-> IF z \in S THEN g[z] ELSE "clear"]

NextSafe == update_safe_directions \/ update_safe_directions_dense

SpecSafe == InitSafe /\ [][NextSafe]_vars

(***************************************************************************)
(* C18.  The sparse analyzer's safe-direction map has exactly the five     *)
(* keys; up is false iff some top-row zone is warning or danger, down iff  *)
(* some bottom-row zone is (also in a single-row grid), left iff some      *)
(* leftmost-column zone is, right iff some rightmost-column zone is (also  *)
(* in a single-column grid), forward iff some zone in a non-edge row and   *)
(* non-edge column is.                                                     *)
(***************************************************************************)
Alarmed == {z \in DOMAIN status : status[z] \in {"warning", "danger"}}

C18_SparseSafeDirections ==
    sparse_result # NoValue =>
        LET safe == sparse_result.safe_directions
            last_row == grid_size.rows - 1
            last_col == grid_size.cols - 1
        IN  /\ DOMAIN safe = {"forward", "left", "right", "up", "down"}
            /\ safe.up = ~\E z \in Alarmed : z[1] = 0
            /\ safe.down = ~\E z \in Alarmed : z[1] = last_row
            /\ safe.left = ~\E z \in Alarmed : z[2] = 0
            /\ safe.right = ~\E z \in Alarmed : z[2] = last_col
            /\ safe.forward = ~\E z \in Alarmed : /\ z[1] # 0 /\ z[1] # last_row
                                                  /\ z[2] # 0 /\ z[2] # last_col

(***************************************************************************)
(* C19.  The dense analyzer reports forward unsafe whenever any interior   *)
(* zone (non-edge row and non-edge column) is warning or danger, and for   *)
(* identical zone statuses both analyzers return the same safe-direction   *)
(* map.                                                                    *)
(***************************************************************************)
Interior(z) ==
    /\ z[1] # 0 /\ z[1] # grid_size.rows - 1
    /\ z[2] # 0 /\ z[2] # grid_size.cols - 1

C19_DenseMatchesSparse ==
    /\ dense_safe # NoValue =>
          ((\E z \in Alarmed : Interior(z)) => ~dense_safe.forward)
    /\ (dense_safe # NoValue /\ sparse_result # NoValue) =>
          dense_safe = sparse_result.safe_directions

(***************************************************************************)
(* The zone grids of both analyzers, _analyze_zones (dense) and            *)
(* _analyze_zones_sparse.                                                  *)
(*                                                                         *)
(* Only what depends on the frame and grid sizes is kept of a zone: its    *)
(* row, column and pixel bounds (x1, y1, x2, y2); the sparse zones also    *)
(* carry their status.  The sparse bounds int(col * (width / cols)) are    *)
(* taken in exact arithmetic, floor(col * width / cols).                   *)
(***************************************************************************)
MaxWidth == 6
MaxHeight == 4

\* obstacle_detector.py lines 115-125: zone_w = width // cols
DenseBounds(z, width, height, cols, rows) ==
    LET zone_w == width \div cols
        zone_h == height \div rows
    IN  <<z[2] * zone_w, z[1] * zone_h, (z[2] + 1) * zone_w, (z[1] + 1) * zone_h>>

\* obstacle_detector_fast.py lines 121-132: zone_width = width / cols
SparseBounds(z, width, height, cols, rows) ==
    <<(z[2] * width) \div cols, (z[1] * height) \div rows,
      ((z[2] + 1) * width) \div cols, ((z[1] + 1) * height) \div rows>>

\* ObstacleDetector._analyze_zones(flow, width, height)
analyze_zones ==
    /\ dense_zones = <<>>
    /\ dense_zones' =
          LET order == ZoneOrder(grid_size.cols, grid_size.rows)
          IN  [i \in DOMAIN order |->
                  [row |-> order[i][1], col |-> order[i][2],
                   bounds |-> DenseBounds(order[i], frame_size.width, frame_size.height,
                                          grid_size.cols, grid_size.rows)]]
    /\ UNCHANGED <<apVars, call, message, nal_units, decVars, mbVars, voVars, tauVars,
                   grid_size, frame_size, status, sparse_zones, sparse_result, dense_safe,
                   prev_gray, frame_result>>

\* ObstacleDetectorFast._analyze_zones_sparse(new_points, old_points, flow_vectors, width, height)
analyze_zones_sparse ==
    /\ sparse_zones = <<>>
    /\ sparse_zones' =
          LET order == ZoneOrder(grid_size.cols, grid_size.rows)
          IN  [i \in DOMAIN order |->
                  [row |-> order[i][1], col |-> order[i][2],
                   bounds |-> SparseBounds(order[i], frame_size.width, frame_size.height,
                                           grid_size.cols, grid_size.rows),
                   status |-> status[order[i]]]]
    /\ UNCHANGED <<apVars, call, message, nal_units, decVars, mbVars, voVars, tauVars,
                   grid_size, frame_size, status, dense_zones, sparse_result, dense_safe,
                   prev_gray, frame_result>>

\* every frame up to MaxWidth x MaxHeight pixels on every grid, no obstacle in sight
InitZones ==
    /\ ApInit
    /\ call = NoCall
    /\ message = NoMessage
    /\ nal_units = <<>>
    /\ NoGridInit
    /\ NotAnalyzed
    /\ \E cols \in 1..MaxCols, rows \in 1..MaxRows :
          /\ grid_size = [cols |-> cols, rows |-> rows]
          /\ status = [z \in Zones(cols, rows) |-> "clear"]
    /\ frame_size \in [width : 1..MaxWidth, height : 1..MaxHeight]

NextZones == analyze_zones \/ analyze_zones_sparse

SpecZones == InitZones /\ [][NextZones]_vars

(***************************************************************************)
(* C20.  Both analyzers yield exactly rows x cols zones whose pixel        *)
(* bounds tile the frame: every pixel (x, y) with 0 <= x < width and       *)
(* 0 <= y < height lies in exactly one zone, also when width is not        *)
(* divisible by cols or height by rows.                                    *)
(***************************************************************************)
Covers(zone, x, y) ==
    /\ zone.bounds[1] <= x /\ x < zone.bounds[3]
    /\ zone.bounds[2] <= y /\ y < zone.bounds[4]

Tiles(zones) ==
    /\ Len(zones) = grid_size.rows * grid_size.cols
    /\ \A x \in 0..(frame_size.width - 1), y \in 0..(frame_size.height - 1) :
          Cardinality({i \in DOMAIN zones : Covers(zones[i], x, y)}) = 1

C20_ZonesTileFrame ==
    /\ dense_zones # <<>> => Tiles(dense_zones)
    /\ sparse_zones # <<>> => Tiles(sparse_zones)

(***************************************************************************)
(* One zone of _analyze_zones_sparse (lines 140-187): the zone data from   *)
(* the tracked points that fall in the zone.  The points enter by what the *)
(* code derives from them: how many there are, the mean divergence of      *)
(* their flow (expansion) and their mean distance from the zone centre,    *)
(* both in thousandths.  A ttc is an exact fraction in seconds, or         *)
(* infinite.                                                               *)
(***************************************************************************)
MaxPoints == 5

expansion_threshold == 1500
ttc_warning == 2
ttc_danger == 1

Infinite == [inf |-> TRUE]

ZoneData(num_points, expansion, avg_distance) ==
    LET clear == [expansion |-> 0, ttc |-> Infinite, status |-> "clear",
                  num_points |-> num_points]
        ttc == [n |-> avg_distance, d |-> expansion * 30]      \* 30 fps assumption
    IN  IF num_points > 3                   \* len(zone_flows) > 3
        THEN IF expansion > 500
             THEN [expansion |-> expansion, ttc |-> ttc, num_points |-> num_points,
                   status |-> IF ttc.n < ttc_danger * ttc.d THEN "danger"
                              ELSE IF ttc.n < ttc_warning * ttc.d THEN "warning"
                              ELSE IF expansion > expansion_threshold THEN "caution"
                              ELSE "clear"]
             ELSE [clear EXCEPT !.expansion = expansion]
        ELSE clear

ZoneExpansions == {-1000, 0, 500, 600, expansion_threshold, expansion_threshold + 100}

\* mean distances of 1, 20, 40 and 100 pixels
ZoneDistances == {1000, 20000, 40000, 100000}

ZoneCalls ==
    [fn : {"_analyze_zones_sparse"}, num_points : 0..MaxPoints,
     expansion : ZoneExpansions, avg_distance : ZoneDistances, ret : {NoRet}]

\* the body of the zone loop, for the zone whose points are given by call
analyze_zone_points ==
    /\ call.fn = "_analyze_zones_sparse"
    /\ call.ret = NoRet
    /\ call' = [call EXCEPT !.ret = ZoneData(call.num_points, call.expansion,
                                             call.avg_distance)]
    /\ UNCHANGED <<apVars, message, nal_units, visionVars>>

InitZoneData ==
    /\ ApInit
    /\ call \in ZoneCalls
    /\ message = NoMessage
    /\ nal_units = <<>>
    /\ VisionInit

NextZoneData == analyze_zone_points

SpecZoneData == InitZoneData /\ [][NextZoneData]_vars

(***************************************************************************)
(* C21.  In the sparse analyzer a zone holding at least 3 tracked points   *)
(* gets its expansion, TTC and status computed from those points; only     *)
(* zones with fewer than 3 points are left at expansion 0, TTC infinite,   *)
(* status clear.                                                           *)
(***************************************************************************)
LeftAtDefaults(zone) ==
    zone.expansion = 0 /\ zone.ttc = Infinite /\ zone.status = "clear"

C21_ThreePointsAreAnalyzed ==
    (call.fn = "_analyze_zones_sparse" /\ call.ret # NoRet) =>
        IF call.num_points >= 3
        THEN /\ call.ret.expansion = call.expansion
             /\ call.expansion > 500 => call.ret.ttc # Infinite
        ELSE LeftAtDefaults(call.ret)

(***************************************************************************)
(* The processed-frame slot, VisionProcessor.processed_frame, between the *)
(* receiver thread (_on_message) and the thread serving /stream           *)
(* (send_mjpeg_stream).  There is no lock; each step below is one         *)
(* attribute read or write, or the work between two of them.  The frames  *)
(* are numbered in the order they are processed: the frame in             *)
(* _process_frame is number total_frames + 1.                              *)
(***************************************************************************)
MaxMailboxFrames == 8

\* the array _process_frame returns for the n-th frame
Frame(n) == [number |-> n]

Overwrite_keeps_unread(slot, frame) == IF slot = NoValue THEN frame ELSE slot

\* self.processed_frame = processed
Overwrite(slot, frame) == frame

\* the receiver thread: a decoded frame enters _process_frame
begin_process_frame ==
    /\ receiver_pc = "idle"
    /\ total_frames < MaxMailboxFrames
    /\ receiver_pc' = "processing"
    /\ UNCHANGED <<apVars, call, message, nal_units, codec, message_count, nal_count,
                   total_frames, codec_frames, processed_frames,
                   processed_frame, frame_queue, consumer_pc, latest,
                   voVars, tauVars, gridVars>>

\* the receiver thread: _process_frame returns, the slot is assigned, total_frames += 1
store_processed_frame ==
    /\ receiver_pc = "processing"
    /\ processed_frame' = Overwrite(processed_frame, Frame(total_frames + 1))
    /\ total_frames' = total_frames + 1
    /\ receiver_pc' = "idle"
    /\ UNCHANGED <<apVars, call, message, nal_units, codec, message_count, nal_count,
                   codec_frames, processed_frames, frame_queue, consumer_pc, latest,
                   voVars, tauVars, gridVars>>

\* the stream thread: frame = self.processor.get_latest_frame()
get_latest_frame ==
    /\ consumer_pc = "read"
    /\ latest' = processed_frame
    /\ consumer_pc' = IF processed_frame = NoValue THEN "sleep" ELSE "encode"
    /\ UNCHANGED <<apVars, call, message, nal_units, decVars,
                   processed_frame, frame_queue, receiver_pc, voVars, tauVars, gridVars>>

\* the stream thread: cv2.imencode and the writes to the client
encode_frame ==
    /\ consumer_pc = "encode"
    /\ consumer_pc' = "sleep"
    /\ UNCHANGED <<apVars, call, message, nal_units, decVars,
                   processed_frame, frame_queue, receiver_pc, latest, voVars, tauVars, gridVars>>

\* the stream thread: time.sleep(0.033), then the next iteration
stream_sleep ==
    /\ consumer_pc = "sleep"
    /\ consumer_pc' = "read"
    /\ UNCHANGED <<apVars, call, message, nal_units, decVars,
                   processed_frame, frame_queue, receiver_pc, latest, voVars, tauVars, gridVars>>

NextMailbox ==
    \/ begin_process_frame
    \/ store_processed_frame
    \/ get_latest_frame
    \/ encode_frame
    \/ stream_sleep

SpecMailbox == Init /\ [][NextMailbox]_vars

(***************************************************************************)
(* C22.  The processed-frame mailbox is one overwrite slot: the receiver's *)
(* write is possible whatever the consumer is doing, the queue never       *)
(* grows, a read is possible whatever the receiver is doing, a read        *)
(* returns None exactly when no frame has been stored yet and otherwise    *)
(* the frame stored last at that moment, never the frame still in          *)
(* _process_frame, and the frames one consumer reads never go backwards.   *)
(***************************************************************************)
C22_SingleSlotMailbox ==
    [][ /\ frame_queue' = <<>>
        /\ receiver_pc = "processing" => ENABLED store_processed_frame
        /\ consumer_pc = "read" => ENABLED get_latest_frame
        /\ (consumer_pc = "read" /\ consumer_pc' # "read") =>
              /\ latest' = NoValue <=> total_frames = 0
              /\ latest' # NoValue => latest' = Frame(total_frames)
              /\ (latest # NoValue /\ latest' # NoValue) =>
                     latest'.number >= latest.number
      ]_vars

\* the consumer is still encoding a frame that the receiver has overwritten
\* twice, a third one being in _process_frame
C22_Witness ==
    /\ consumer_pc = "encode"
    /\ latest # NoValue
    /\ latest.number + 2 = total_frames
    /\ receiver_pc = "processing"

(***************************************************************************)
(* C23.  On every process_frame call after the first that obtains no       *)
(* motion estimate (descriptors missing in the frame or in the stored      *)
(* one, knnMatch raising, fewer than 8 accepted matches, no essential      *)
(* matrix), current_pos, current_rot and the trajectory are unchanged,     *)
(* result motion is None, and the stored frame, keypoints and descriptors  *)
(* are replaced by those of the frame just processed.                      *)
(***************************************************************************)
NoEstimate(m) ==
    \/ prev_desc = NoValue
    \/ m.kind \in {"no_descriptors", "knn_error", "few_matches", "no_essential"}

C23_NoEstimateKeepsPoseReplacesFrame ==
    [][\A m \in Motions :
          (prev_frame # "None" /\ NoEstimate(m) /\ process_frame(m)) =>
              /\ UNCHANGED <<current_pos, current_rot, trajectory>>
              /\ vo_result'.motion = NoMotion
              /\ prev_frame' = m.frame
              /\ prev_kp' = [kp_of |-> m.frame]
              /\ prev_desc' = IF m.kind = "no_descriptors" THEN NoValue
                              ELSE [desc_of |-> m.frame]]_vars

\* after an accepted motion, a frame in which knnMatch raised has been processed
\* and is the stored one; the frame before it was the other image
C23_Witness ==
    /\ good_frames >= 1
    /\ Len(trajectory) = good_frames + 1
    /\ vo_result.motion = NoMotion
    /\ prev_frame = "gray_b"
    /\ prev_desc = [desc_of |-> "gray_b"]

(***************************************************************************)
(* ObstacleDetectorFast.analyze_frame as a whole.  The zones that          *)
(* _analyze_zones_sparse returns are given by status, as above; whether    *)
(* any point was tracked from the previous frame is an input.              *)
(***************************************************************************)
AllDirectionsSafe ==
    [forward |-> TRUE, left |-> TRUE, right |-> TRUE, up |-> TRUE, down |-> TRUE]

\* result as analyze_frame builds it before looking at the frame
DefaultResult ==
    [zones |-> <<>>, safe_directions |-> AllDirectionsSafe, warnings |-> <<>>,
     danger_level |-> 0]

\* analyze_frame(frame); tracked: calcOpticalFlowPyrLK followed at least one point
analyze_frame(tracked) ==
    /\ prev_gray' = "gray"
    /\ frame_result' =
          IF prev_gray = "None" \/ ~tracked
          THEN DefaultResult
          ELSE [zones |-> status,
                safe_directions |-> SparseSafe(grid_size.cols, grid_size.rows, status),
                warnings |-> SparseWarnings(grid_size.cols, grid_size.rows, status),
                danger_level |-> SparseDangerLevel(grid_size.cols, grid_size.rows, status)]
    /\ UNCHANGED <<apVars, call, message, nal_units, decVars, mbVars, voVars, tauVars,
                   grid_size, frame_size, status, sparse_zones, dense_zones,
                   sparse_result, dense_safe>>

NextFrame == \E tracked \in BOOLEAN : analyze_frame(tracked)

SpecFrame == InitSafe /\ [][NextFrame]_vars

(***************************************************************************)
(* C24.  In every result of the sparse analyzer danger_level is 0, 2 or 3  *)
(* and agrees with the zones of that result: 3 iff some zone is danger,    *)
(* 2 iff none is danger and some zone is warning, 0 otherwise; a           *)
(* direction reported unsafe implies danger_level >= 2; the first frame    *)
(* reports danger_level 0 and all five directions safe.                    *)
(***************************************************************************)
C24_DangerLevelAgreesWithZones ==
    [][LET res == frame_result'
           statuses == {res.zones[z] : z \in DOMAIN res.zones}
       IN  /\ res.danger_level \in {0, 2, 3}
           /\ res.danger_level = 3 <=> "danger" \in statuses
           /\ res.danger_level = 2 <=> ("danger" \notin statuses /\ "warning" \in statuses)
           /\ (\E d \in DOMAIN res.safe_directions : ~res.safe_directions[d]) =>
                 res.danger_level >= 2
           /\ prev_gray = "None" =>
                 /\ res.danger_level = 0
                 /\ \A d \in {"forward", "left", "right", "up", "down"} :
                       res.safe_directions[d]]_vars

\* a later frame whose only alarmed zones are warnings, among caution zones
C24_Witness ==
    /\ frame_result # NoValue
    /\ frame_result.danger_level = 2
    /\ ~frame_result.safe_directions.left
    /\ \E z \in DOMAIN frame_result.zones : frame_result.zones[z] = "caution"

(***************************************************************************)
(* C25.  The four smoothing histories change only on emission: an          *)
(* execute_control call that transmits no velocity command, or whose       *)
(* transmission is not answered 200, leaves them unchanged; they always    *)
(* have equal length, at most command_history_size.                        *)
(***************************************************************************)
Histories == <<vx_history, vy_history, vz_history, yaw_history>>

Emitted(rs) == \E i \in VelocityRequests(rs) : rs[i].status = "200"

C25_HistoriesOnlyOnEmission ==
    [][/\ (op' = "execute_control" /\ ~Emitted(requests')) => Histories' = Histories
       /\ \A i \in 1..4 : /\ Len(Histories'[i]) = Len(vx_history')
                          /\ Len(Histories'[i]) <= command_history_size]_vars

(***************************************************************************)
(* C26.  Every command dict that compute_control returns while ENABLED     *)
(* (a normal command, the zero command with action STOP, NO_VISION) is     *)
(* accepted by execute_control in confirmation and in silent mode: the     *)
(* call returns True or False without raising, and a command transmitted   *)
(* successfully always advances last_command_time to the time of the call. *)
(***************************************************************************)
C26_EveryEnabledCommandAccepted ==
    [][(/\ op' = "execute_control"
        /\ State = "ENABLED"
        /\ control_cmd.action \notin {"STOPPED", "EMERGENCY"}) =>
            /\ result' \in {"True", "False"}
            /\ Emitted(requests') => last_command_time' = now]_vars

(***************************************************************************)
(* C27.  When compute_control returned the zero command with action STOP   *)
(* and execute_control transmits for it, the token transmitted is stop,    *)
(* whatever the smoothing histories still hold from earlier ticks.         *)
(***************************************************************************)
C27_StopCommandSendsStop ==
    [][(/\ op' = "execute_control"
        /\ control_cmd.action = "STOP") =>
            \A i \in VelocityRequests(requests') : requests'[i].path = "stop"]_vars

(***************************************************************************)
(* C28.  After enable(), also when re-enabling out of EMERGENCY,           *)
(* compute_control does not enter EMERGENCY before three consecutive       *)
(* blocked calls have been made since that enable(): a blocked call made   *)
(* right after enable() returns action STOP and leaves the autopilot       *)
(* ENABLED.                                                                *)
(***************************************************************************)
C28_FirstBlockedCallAfterEnableStops ==
    [][\A v \in CoreVisions :
          (/\ op = "enable"
           /\ v.balance # NoBalance
           /\ Blocked(v)
           /\ compute_control(v)) =>
               /\ control_cmd'.action = "STOP"
               /\ State' = "ENABLED"]_vars

(***************************************************************************)
(* Commands against the safe-direction map: vision results that are not    *)
(* blocked (forward safe, danger below 3) with one or both sides unsafe,   *)
(* executed in silent mode.  The three results differ in balance, flow or  *)
(* danger, so the dict compute_control returns tells which one it was      *)
(* computed from.                                                          *)
(***************************************************************************)
\* warning with all the flow on the right and the left side unsafe
VisLeftUnsafe == Vision(Balance(-1000), 3000, 2, [AllSafe EXCEPT !.left = FALSE])

GateVisions == {VisLowFlow, VisLeftUnsafe, VisClimb}

NextGate ==
    \/ enable /\ UNCHANGED otherVars
    \/ \E v \in GateVisions : compute_control(v) /\ UNCHANGED otherVars
    \/ execute_control("False", "y", 0, "200") /\ UNCHANGED otherVars
    \/ Tick /\ UNCHANGED otherVars

SpecGate == Init /\ [][NextGate]_vars

(***************************************************************************)
(* C29.  execute_control never transmits a movement token toward a         *)
(* direction that the safe-direction map of the vision result the command  *)
(* was computed from marks unsafe: no move/left when left is false, no     *)
(* move/right when right is false, no move/up when up is false, no         *)
(* move/down when down is false.                                           *)
(***************************************************************************)
Toward == [left |-> "move/left", right |-> "move/right", up |-> "move/up", down |-> "move/down"]

C29_NoMoveTowardUnsafeDirection ==
    [][\A v \in GateVisions :
          (op' = "execute_control" /\ control_cmd = NormalCmd(v)) =>
              \A d \in DOMAIN Toward :
                  ~v.safe_directions[d] =>
                      \A i \in VelocityRequests(requests') : requests'[i].path # Toward[d]]_vars

(***************************************************************************)
(* C30.  Whenever the autopilot becomes ENABLED through enable(), the four *)
(* smoothing histories are empty, so that the first command transmitted    *)
(* afterwards carries nothing of the commands computed before the          *)
(* preceding disable() or emergency stop.                                  *)
(***************************************************************************)
C30_EnableStartsWithEmptyHistories ==
    [][(op' = "enable" /\ State # "ENABLED") =>
           /\ State' = "ENABLED"
           /\ \A i \in 1..4 : Histories'[i] = <<>>]_vars

====
